---- MODULE Spec2Model ----
(***************************************************************************)
(* Number-Expression-Solver: src/solver.py and src/operators.py.            *)
(*                                                                         *)
(* A postfix (RPN) sequence is a list of tokens.  Python tells the two     *)
(* kinds of token apart by their type (isinstance(x, str)); here a token   *)
(* is a record [kind |-> "num", v |-> float] or [kind |-> "op", v |-> sym].  *)
(*                                                                         *)
(* Numbers are Python floats.  A float is a pair <<m, e>> standing for     *)
(* m * 2^e, with m odd (or <<0, 0>> for zero); every arithmetic result is  *)
(* rounded to MantBits significant bits, to nearest, ties to even, as IEEE *)
(* 754 does with 53 bits.  The exponent is not bounded.  None is <<>>.     *)
(***************************************************************************)
EXTENDS Integers, Sequences, FiniteSets, TLC

\* Significant bits of a float (53 in CPython; scaled down).
MantBits == 8
\* Longest list of numbers given to the sequence-level functions.
MaxLen == 3
\* Largest num given to generateRPNStructures.
MaxShape == 5
\* Largest number of worker processes given to solve.
MaxWorkers == 2

\* Values the input numbers are drawn from.
Numbers == {0, 3, 5}

None == <<>>

----------------------------------------------------------------------------
(* Python float arithmetic.                                                *)

Abs(i) == IF i < 0 THEN -i ELSE i

Sgn(i) == IF i < 0 THEN -1 ELSE 1

RECURSIVE BitLen(_)
BitLen(a) == IF a = 0 THEN 0 ELSE 1 + BitLen(a \div 2)

RECURSIVE Norm(_, _)
\* m * 2^e with the factors of two moved into the exponent.
Norm(m, e) ==
    IF m = 0 THEN <<0, 0>>
    ELSE IF m % 2 = 0 THEN Norm(m \div 2, e + 1)
    ELSE <<m, e>>

\* The float nearest to m * 2^e: round to nearest, ties to even.
Fl(m, e) ==
    LET a == Abs(m)
        k == BitLen(a) - MantBits
    IN  IF k <= 0 THEN Norm(m, e)
        ELSE LET q == a \div (2 ^ k)
                 r == a % (2 ^ k)
                 h == 2 ^ (k - 1)
                 up == r > h \/ (r = h /\ q % 2 = 1)
             IN  Norm(Sgn(m) * (IF up THEN q + 1 ELSE q), e + k)

\* float(n) of an integer n.
FromInt(n) == Fl(n, 0)

FAdd(x, y) ==
    LET e == IF x[2] < y[2] THEN x[2] ELSE y[2]
    IN  Fl(x[1] * 2 ^ (x[2] - e) + y[1] * 2 ^ (y[2] - e), e)

FNeg(x) == <<-x[1], x[2]>>

FSub(x, y) == FAdd(x, FNeg(y))

FMul(x, y) == Fl(x[1] * y[1], x[2] + y[2])

\* x / y for y # 0: the quotient carried to 2 * MantBits + 1 extra bits and
\* a sticky bit for the remainder, then rounded once.
FDiv(x, y) ==
    LET s == 2 * MantBits + 1
        n == Abs(x[1]) * 2 ^ s
        d == Abs(y[1])
        q == n \div d
        sticky == IF n % d = 0 THEN 0 ELSE 1
    IN  Fl(Sgn(x[1]) * Sgn(y[1]) * (2 * q + sticky), x[2] - y[2] - s - 1)

FAbs(x) == <<Abs(x[1]), x[2]>>

\* x < y
FLt(x, y) ==
    LET e == IF x[2] < y[2] THEN x[2] ELSE y[2]
    IN  x[1] * 2 ^ (x[2] - e) < y[1] * 2 ^ (y[2] - e)

IsZero(x) == x[1] = 0

----------------------------------------------------------------------------
(* operators.py: the OPERATORS table.                                      *)

\* OPERATORS.keys(), in insertion order.
OperatorKeys == <<"+", "-", "*", "/">>

\* The table with a division that answers 0.0 for a zero divisor.
FuncZeroForZeroDivisor(op, x, y) ==
    CASE op = "+" -> FAdd(x, y)
      [] op = "-" -> FSub(x, y)
      [] op = "*" -> FMul(x, y)
      [] op = "/" -> IF ~IsZero(y) THEN FDiv(x, y) ELSE <<0, 0>>

\* OPERATORS[op].func(x, y)
Func(op, x, y) ==
    CASE op = "+" -> FAdd(x, y)
      [] op = "-" -> FSub(x, y)
      [] op = "*" -> FMul(x, y)
      [] op = "/" -> IF ~IsZero(y) THEN FDiv(x, y) ELSE None

\* OPERATORS[op].precedence
Precedence(op) ==
    CASE op = "+" -> 1
      [] op = "-" -> 1
      [] op = "*" -> 2
      [] op = "/" -> 2

\* OPERATORS[op].associative
Associative(op) ==
    CASE op = "+" -> TRUE
      [] op = "-" -> FALSE
      [] op = "*" -> TRUE
      [] op = "/" -> FALSE

----------------------------------------------------------------------------
(* Tokens.                                                                 *)

\* A float in a sequence.
NumTok(x) == [kind |-> "num", v |-> x]

\* A str in a sequence.
OpTok(s) == [kind |-> "op", v |-> s]

\* isinstance(x, str)
IsStr(x) == x.kind = "op"

\* The integer an integral float stands for.
IntOf(x) == x[1] * 2 ^ x[2]

\* str(x) of a float with an integral value: "3.0".
Str(x) == ToString(IntOf(x)) \o ".0"

----------------------------------------------------------------------------
(* solver.py: generateRPNStructures.                                       *)

RECURSIVE generateLooseGuard(_, _, _, _)
\* generate with an operator placed as soon as one operand is on the stack.
generateLooseGuard(numsLeft, opsLeft, stackSize, cur) ==
    IF numsLeft = 0 /\ opsLeft = 0 THEN <<cur>>
    ELSE LET placeNum ==
                 IF numsLeft > 0
                 THEN generateLooseGuard(numsLeft - 1, opsLeft, stackSize + 1,
                                         Append(cur, 0))
                 ELSE <<>>
             placeOp ==
                 IF opsLeft > 0 /\ stackSize >= 1
                 THEN generateLooseGuard(numsLeft, opsLeft - 1, stackSize - 1,
                                         Append(cur, 1))
                 ELSE <<>>
         IN  placeNum \o placeOp

RECURSIVE generate(_, _, _, _)
generate(numsLeft, opsLeft, stackSize, cur) ==
    IF numsLeft = 0 /\ opsLeft = 0 THEN <<cur>>
    ELSE LET placeNum ==
                 IF numsLeft > 0
                 THEN generate(numsLeft - 1, opsLeft, stackSize + 1,
                               Append(cur, 0))
                 ELSE <<>>
             placeOp ==
                 IF opsLeft > 0 /\ stackSize >= 2
                 THEN generate(numsLeft, opsLeft - 1, stackSize - 1,
                               Append(cur, 1))
                 ELSE <<>>
         IN  placeNum \o placeOp

generateRPNStructures(num) == generate(num, num - 1, 0, <<>>)

----------------------------------------------------------------------------
(* solver.py: useStructures.  Python indexes from 0; TLA+ sequences from 1, *)
(* so numbers[numIdx] is numbers[numIdx + 1] here.  Indexing a tuple past  *)
(* its end raises IndexError, which ends the call.                         *)

IndexError == [raised |-> "IndexError"]

RECURSIVE useLoop(_, _, _, _, _, _)
useLoop(structure, numbers, operators, i, numIdx, res) ==
    IF i > Len(structure) THEN [raised |-> "", value |-> res]
    ELSE LET opIdx == (i - 1) - numIdx
         IN  IF structure[i] = 0
             THEN IF numIdx + 1 > Len(numbers) THEN IndexError
                  ELSE useLoop(structure, numbers, operators, i + 1,
                               numIdx + 1,
                               Append(res, NumTok(numbers[numIdx + 1])))
             ELSE IF opIdx + 1 > Len(operators) THEN IndexError
                  ELSE useLoop(structure, numbers, operators, i + 1,
                               numIdx, Append(res, OpTok(operators[opIdx + 1])))

useStructures(structure, numbers, operators) ==
    useLoop(structure, numbers, operators, 1, 0, <<>>)

----------------------------------------------------------------------------
(* solver.py: computeRPN.                                                  *)

\* One pass of the loop body on token x: the new stack, or None when the
\* operator's function returns None.
computeToken(stack, x) ==
    IF IsStr(x)
    THEN LET rhs == stack[Len(stack)]
             lhs == stack[Len(stack) - 1]
             res == Func(x.v, lhs, rhs)
         IN  IF res = None THEN None
             ELSE Append(SubSeq(stack, 1, Len(stack) - 2), res)
    ELSE Append(stack, x.v)

RECURSIVE computeLoop(_, _, _)
computeLoop(input, i, stack) ==
    IF i > Len(input) THEN stack[Len(stack)]
    ELSE LET next == computeToken(stack, input[i])
         IN  IF next = None THEN None
             ELSE computeLoop(input, i + 1, next)

computeRPN(input) == computeLoop(input, 1, <<>>)

----------------------------------------------------------------------------
(* solver.py: rpnToInfix.  A text is the sequence of the pieces the        *)
(* f-strings join; a fragment on the stack is <<text, op, prec>> with      *)
(* op = "" for None and prec = Inf for float("inf").                       *)

Inf == 1000

Paren(expr) == <<"(">> \o expr \o <<")">>

\* renderToken with one test of the parenthesization changed.
renderTokenWith(stack, x, lhsLoose, rhsIgnoresAssoc, rhsAlways) ==
    IF IsStr(x)
    THEN LET op == x.v
             rhs == stack[Len(stack)]
             lhs == stack[Len(stack) - 1]
             currPrec == Precedence(op)
             currAssoc == Associative(op)
             lhsExpr == IF lhs[2] # "" /\
                           (lhs[3] < currPrec \/
                            (lhsLoose /\ lhs[3] = currPrec))
                        THEN Paren(lhs[1]) ELSE lhs[1]
             rhsExpr == IF rhs[2] # "" /\
                           (rhs[3] < currPrec \/
                            (rhs[3] = currPrec /\ ~rhsIgnoresAssoc /\
                             (rhsAlways \/ ~currAssoc)))
                        THEN Paren(rhs[1]) ELSE rhs[1]
             result == lhsExpr \o <<" ", op, " ">> \o rhsExpr
         IN  Append(SubSeq(stack, 1, Len(stack) - 2), <<result, op, currPrec>>)
    ELSE Append(stack, <<<<Str(x.v)>>, "", Inf>>)

\* lhsPrec <= currPrec instead of lhsPrec < currPrec.
renderTokenLhsLoose(stack, x) == renderTokenWith(stack, x, TRUE, FALSE, FALSE)

\* The right operand of equal precedence never parenthesized.
renderTokenNoAssocTest(stack, x) ==
    renderTokenWith(stack, x, FALSE, TRUE, FALSE)

\* The right operand of equal precedence always parenthesized.
renderTokenRhsAlways(stack, x) ==
    renderTokenWith(stack, x, FALSE, FALSE, TRUE)

renderToken(stack, x) ==
    IF IsStr(x)
    THEN LET op == x.v
             rhs == stack[Len(stack)]
             lhs == stack[Len(stack) - 1]
             currPrec == Precedence(op)
             currAssoc == Associative(op)
             lhsExpr == IF lhs[2] # "" /\ lhs[3] < currPrec
                        THEN Paren(lhs[1]) ELSE lhs[1]
             rhsExpr == IF rhs[2] # "" /\
                           (rhs[3] < currPrec \/
                            (rhs[3] = currPrec /\ ~currAssoc))
                        THEN Paren(rhs[1]) ELSE rhs[1]
             result == lhsExpr \o <<" ", op, " ">> \o rhsExpr
         IN  Append(SubSeq(stack, 1, Len(stack) - 2), <<result, op, currPrec>>)
    ELSE Append(stack, <<<<Str(x.v)>>, "", Inf>>)

RECURSIVE renderLoop(_, _, _)
renderLoop(input, i, stack) ==
    IF i > Len(input) THEN stack[1][1]
    ELSE renderLoop(input, i + 1, renderToken(stack, input[i]))

rpnToInfix(input) ==
    IF input = <<>> THEN None ELSE renderLoop(input, 1, <<>>)

----------------------------------------------------------------------------
(* itertools.permutations and itertools.product, in the order Python       *)
(* yields them.                                                            *)

\* seq without its i-th element.
Without(seq, i) == SubSeq(seq, 1, i - 1) \o SubSeq(seq, i + 1, Len(seq))

RECURSIVE Concat(_, _, _)
\* lists[lo] \o ... \o lists[hi]
Concat(lists, lo, hi) ==
    IF lo > hi THEN <<>>
    ELSE IF lo = hi THEN lists[lo]
    ELSE LET mid == (lo + hi) \div 2
         IN  Concat(lists, lo, mid) \o Concat(lists, mid + 1, hi)

\* [expr for sublist in lists for expr in sublist]
Flatten(lists) == Concat(lists, 1, Len(lists))

RECURSIVE permutations(_)
\* list(permutations(seq)): by position, lexicographic.
permutations(seq) ==
    IF seq = <<>> THEN <<<<>>>>
    ELSE Flatten([i \in 1..Len(seq) |->
             LET rest == permutations(Without(seq, i))
             IN  [j \in 1..Len(rest) |-> <<seq[i]>> \o rest[j]]])

RECURSIVE product(_, _)
\* list(product(keys, repeat=repeat)), repeat >= 0: the last position moves
\* fastest.
product(keys, repeat) ==
    IF repeat = 0 THEN <<<<>>>>
    ELSE LET shorter == product(keys, repeat - 1)
         IN  [j \in 1..(Len(shorter) * Len(keys)) |->
                 Append(shorter[((j - 1) \div Len(keys)) + 1],
                        keys[((j - 1) % Len(keys)) + 1])]

----------------------------------------------------------------------------
(* solver.py: processOpsCombinations.                                      *)

\* The test with <= in place of <.
MatchesWithin(computed, target, tol) ==
    computed # None /\ ~FLt(tol, FAbs(FSub(computed, target)))

\* computed is not None and abs(computed - target) < tol
Matches(computed, target, tol) ==
    computed # None /\ FLt(FAbs(FSub(computed, target)), tol)

\* The body of the inner loop for one permutation and one structure: what it
\* appends to res.
tryOne(operators, target, perm, structure, tol) ==
    LET sequence == useStructures(structure, perm, operators).value
        computed == computeRPN(sequence)
    IN  IF Matches(computed, target, tol)
        THEN <<rpnToInfix(sequence)>>
        ELSE <<>>

\* The loop with an expression already in res not appended again.
processOpsCombinationsOnce(operators, target, numbers, structures, tol) ==
    LET perms == permutations(numbers)
        S == Len(structures)
        all == Flatten([k \in 1..(Len(perms) * S) |->
                   tryOne(operators, target, perms[((k - 1) \div S) + 1],
                          structures[((k - 1) % S) + 1], tol)])
        first == {k \in 1..Len(all) : \A l \in 1..(k - 1) : all[l] # all[k]}
    IN  Flatten([k \in 1..Len(all) |->
                    IF k \in first THEN <<all[k]>> ELSE <<>>])

\* for perm in permutations(numbers): for structure in structures: ...
processOpsCombinations(operators, target, numbers, structures, tol) ==
    LET perms == permutations(numbers)
        S == Len(structures)
    IN  Flatten([k \in 1..(Len(perms) * S) |->
            tryOne(operators, target, perms[((k - 1) \div S) + 1],
                   structures[((k - 1) % S) + 1], tol)])

----------------------------------------------------------------------------
(* solver.py: solve.  pool.map(worker, opsCombinations) cuts the list into *)
(* chunks of consecutive tuples, hands the chunks to the worker processes  *)
(* in order, and stores what a worker returns for chunk c at the chunk's   *)
(* own place in the list of results, whichever worker finishes first.      *)

\* The chunk size Pool.map picks for n items and w processes.
Chunksize(n, w) ==
    IF n % (4 * w) = 0 THEN n \div (4 * w) ELSE (n \div (4 * w)) + 1

\* The number of chunks of size c that n items make.
NumChunks(n, c) == (n + c - 1) \div c

\* The items of chunk k (k = 1, 2, ...): positions first..last.
ChunkFirst(k, c) == (k - 1) * c + 1

ChunkLast(k, c, n) == IF k * c < n THEN k * c ELSE n

\* The results of a chunk stored at the first places still None, in the order
\* the chunks complete.
mapSetAsCompleted(val, k, c, out) ==
    LET free == {j \in 1..Len(val) : val[j] = None}
        at == IF free = {} THEN Len(val) + 1
              ELSE CHOOSE j \in free : \A l \in free : j <= l
    IN  [j \in 1..Len(val) |->
            IF at <= j /\ j < at + Len(out) THEN out[j - at + 1] ELSE val[j]]

\* The results of chunk k stored in the list of results: the slice the chunk
\* came from is overwritten.
mapSet(val, k, c, out) ==
    [j \in 1..Len(val) |->
        IF ChunkFirst(k, c) <= j /\ j <= ChunkLast(k, c, Len(val))
        THEN out[j - ChunkFirst(k, c) + 1]
        ELSE val[j]]

\* The count with permutations that read alike counted once.
countAttemptsDistinct(ops, nums, structs) ==
    LET perms == permutations(nums)
    IN  Len(ops) * Cardinality({perms[k] : k \in 1..Len(perms)}) * Len(structs)

\* len(opsCombinations) * len(list(permutations(numbers))) * len(structures)
countAttempts(ops, nums, structs) ==
    Len(ops) * Len(permutations(nums)) * Len(structs)

----------------------------------------------------------------------------
(* Inputs.                                                                 *)

\* The floats the sequence-level functions are tried on.
NumberFloats == {FromInt(n) : n \in Numbers}

\* Sequences over S of length lo..hi.
SeqsOf(S, lo, hi) == UNION {[1..n -> S] : n \in lo..hi}

KeySet == {OperatorKeys[k] : k \in 1..Len(OperatorKeys)}

Floats(ints) == [j \in 1..Len(ints) |-> FromInt(ints[j])]

\* 2^-10 and 1, as floats.
SmallTol == <<1, -10>>

UnitTol == <<1, 0>>

\* Calls of solve: the call of main.py, repeated values, distinct values,
\* an unreachable target, a value at distance tol from the target, a single
\* number, a zero divisor.
Queries ==
    { [target |-> 24, numbers |-> <<2, 4, 8, 12>>, tol |-> SmallTol],
      [target |-> 6, numbers |-> <<3, 3>>, tol |-> SmallTol],
      [target |-> 0, numbers |-> <<1, 2, 3>>, tol |-> SmallTol],
      [target |-> 2, numbers |-> <<5, 3, 1>>, tol |-> UnitTol],
      [target |-> 7, numbers |-> <<1, 2>>, tol |-> SmallTol],
      [target |-> 3, numbers |-> <<1, 2>>, tol |-> UnitTol],
      [target |-> 5, numbers |-> <<5>>, tol |-> SmallTol],
      [target |-> 3, numbers |-> <<5>>, tol |-> SmallTol],
      [target |-> 2, numbers |-> <<2, 0>>, tol |-> SmallTol] }

----------------------------------------------------------------------------
(* State.                                                                  *)

VARIABLES
    pc,              \* where the run is
    num,             \* generateRPNStructures: num
    structures,      \* the list generateRPNStructures returned
    structure,       \* useStructures: structure
    numbers,         \* useStructures, solve: numbers
    operators,       \* useStructures: operators
    outcome,         \* what useStructures did: a list, or IndexError
    input,           \* computeRPN, rpnToInfix: input
    i,               \* position of the loop in input (1-based)
    stack,           \* computeRPN, rpnToInfix: stack
    computed,        \* what computeRPN returned
    infix,           \* what rpnToInfix returned
    target,          \* solve: target
    tol,             \* solve: tol
    max_workers,     \* solve: max_workers
    opsCombinations, \* solve: opsCombinations
    taskNext,        \* the next chunk the pool hands out
    running,         \* the chunks workers hold, each with what it returns
    value,           \* pool.map's list of results, one place per tuple
    numberLeft,      \* chunks whose results are not stored yet
    result,          \* solve: result
    attempts         \* solve: attempts

vars == <<pc, num, structures, structure, numbers, operators, outcome, input,
          i, stack, computed, infix, target, tol, max_workers,
          opsCombinations, taskNext, running, value, numberLeft, result,
          attempts>>

seqVars == <<input, i, stack, computed, infix>>

solveVars == <<target, tol, max_workers, opsCombinations, taskNext, running,
               value, numberLeft, result, attempts>>

shapeVars == <<num, structures, structure, numbers, operators, outcome>>

SeqIdle ==
    /\ input = <<>> /\ i = 0 /\ stack = <<>>
    /\ computed = None /\ infix = None

SolveIdle ==
    /\ target = <<0, 0>> /\ tol = <<0, 0>> /\ max_workers = 0
    /\ opsCombinations = <<>> /\ taskNext = 0 /\ running = {}
    /\ value = <<>> /\ numberLeft = 0 /\ result = <<>> /\ attempts = 0

----------------------------------------------------------------------------
(* Calls of generateRPNStructures and useStructures with any arguments.    *)

InitShapes ==
    /\ pc = "start"
    /\ num \in 1..MaxShape
    /\ numbers = <<>> /\ operators = <<>>
    /\ structures = <<>> /\ structure = <<>> /\ outcome = None
    /\ SeqIdle /\ SolveIdle

GenerateStructures ==
    /\ pc = "start"
    /\ structures' = generateRPNStructures(num)
    /\ pc' = "generated"
    /\ UNCHANGED <<num, structure, numbers, operators, outcome>>
    /\ UNCHANGED seqVars /\ UNCHANGED solveVars

\* useStructures(structure, numbers, operators) is called on one of the
\* structures, with numbers and operators of any length.
UseStructures ==
    /\ pc = "generated"
    /\ \E s \in 1..Len(structures) :
       \E nums \in SeqsOf(NumberFloats, 0, MaxLen) :
       \E ops \in SeqsOf(KeySet, 0, MaxLen - 1) :
          /\ structure' = structures[s]
          /\ numbers' = nums
          /\ operators' = ops
          /\ outcome' = useStructures(structures[s], nums, ops)
    /\ pc' = IF outcome'.raised = "" THEN "assembled" ELSE "raised"
    /\ UNCHANGED <<num, structures>>
    /\ UNCHANGED seqVars /\ UNCHANGED solveVars

NextShapes == GenerateStructures \/ UseStructures

SpecShapes == InitShapes /\ [][NextShapes]_vars

----------------------------------------------------------------------------
(* Shapes.                                                                 *)

Range(f) == {f[k] : k \in DOMAIN f}

\* Number of tags equal to tag among the first k of shape s.
CountTag(s, tag, k) == Cardinality({j \in 1..k : s[j] = tag})

\* The running operand count after the first k tags.
Running(s, k) == CountTag(s, 0, k) - CountTag(s, 1, k)

\* s is a postfix shape for n operands: every operator finds two operands
\* (the count before it is at least 2, so at least 1 after it), and one
\* value is left at the end.
IsShape(s, n) ==
    /\ Len(s) = 2 * n - 1
    /\ CountTag(s, 0, Len(s)) = n
    /\ CountTag(s, 1, Len(s)) = n - 1
    /\ \A k \in 1..Len(s) : Running(s, k) >= 1
    /\ Running(s, Len(s)) = 1

AllShapes(n) == {s \in [1..(2 * n - 1) -> {0, 1}] : IsShape(s, n)}

RECURSIVE Catalan(_)
RECURSIVE CatalanSum(_, _)
\* Catalan(0) = 1, Catalan(k + 1) = sum of Catalan(j) * Catalan(k - j).
Catalan(k) == IF k = 0 THEN 1 ELSE CatalanSum(k - 1, k - 1)

CatalanSum(k, j) ==
    Catalan(j) * Catalan(k - j) + (IF j = 0 THEN 0 ELSE CatalanSum(k, j - 1))

FirstCatalans == <<1, 1, 2, 5, 14>>

\* C5: generateRPNStructures(n), n >= 1, returns every postfix shape for n
\* operands exactly once and nothing else: each returned list has n tags 0
\* and n - 1 tags 1, a running operand count of at least 1 after every tag
\* and of 1 at the end; every such list is returned; none twice; so there
\* are Catalan(n - 1) of them (1, 1, 2, 5, 14 for n = 1..5).
C5_StructuresAreTheShapes ==
    pc = "generated" =>
        /\ \A a \in 1..Len(structures) : IsShape(structures[a], num)
        /\ \A a, b \in 1..Len(structures) :
              a # b => structures[a] # structures[b]
        /\ AllShapes(num) \subseteq Range(structures)
        /\ Len(structures) = Catalan(num - 1)
        /\ num <= Len(FirstCatalans) => Len(structures) = FirstCatalans[num]

\* C5 witness: the fourteen shapes for five operands have been generated.
C5_Witness ==
    /\ pc = "generated" /\ num = 5 /\ Len(structures) = 14

\* C10: useStructures raises whenever the numbers given are not exactly as
\* many as the structure's NUMBER slots or the operators given not exactly as
\* many as its OPERATOR slots, be they too few or too many.
C10_MismatchRaises ==
    (/\ pc \in {"assembled", "raised"}
     /\ \/ Len(numbers) # CountTag(structure, 0, Len(structure))
        \/ Len(operators) # CountTag(structure, 1, Len(structure)))
    => outcome.raised = "IndexError"

----------------------------------------------------------------------------
(* computeRPN, then rpnToInfix, on every postfix sequence useStructures    *)
(* assembles from a structure, numbers and operators of matching lengths.  *)

InitRPN ==
    /\ pc = "start"
    /\ num \in 1..MaxLen
    /\ structures = generateRPNStructures(num)
    /\ structure \in {structures[s] : s \in 1..Len(structures)}
    /\ numbers \in [1..num -> NumberFloats]
    /\ operators \in [1..(num - 1) -> KeySet]
    /\ outcome = None
    /\ SeqIdle /\ SolveIdle

\* sequence = useStructures(structure, perm, operators); computeRPN(sequence)
\* is entered: stack = [].
Assemble ==
    /\ pc = "start"
    /\ outcome' = useStructures(structure, numbers, operators)
    /\ input' = outcome'.value
    /\ stack' = <<>> /\ i' = 1
    /\ pc' = "compute"
    /\ UNCHANGED <<num, structures, structure, numbers, operators>>
    /\ UNCHANGED <<computed, infix>> /\ UNCHANGED solveVars

\* One pass of computeRPN's loop.
ComputeToken ==
    /\ pc = "compute" /\ i <= Len(input)
    /\ LET next == computeToken(stack, input[i])
       IN  IF next = None
           THEN /\ computed' = None
                /\ pc' = "computed"
                /\ UNCHANGED <<i, stack>>
           ELSE /\ stack' = next
                /\ i' = i + 1
                /\ UNCHANGED <<pc, computed>>
    /\ UNCHANGED <<input, infix>>
    /\ UNCHANGED shapeVars /\ UNCHANGED solveVars

\* return stack.pop()
ComputeReturn ==
    /\ pc = "compute" /\ i > Len(input)
    /\ computed' = stack[Len(stack)]
    /\ stack' = SubSeq(stack, 1, Len(stack) - 1)
    /\ pc' = "computed"
    /\ UNCHANGED <<input, i, infix>>
    /\ UNCHANGED shapeVars /\ UNCHANGED solveVars

\* rpnToInfix(sequence) is entered: input is not empty, stack = [].
RenderEnter ==
    /\ pc = "computed" /\ input # <<>>
    /\ stack' = <<>> /\ i' = 1
    /\ pc' = "render"
    /\ UNCHANGED <<input, computed, infix>>
    /\ UNCHANGED shapeVars /\ UNCHANGED solveVars

\* One pass of rpnToInfix's loop.
RenderToken ==
    /\ pc = "render" /\ i <= Len(input)
    /\ stack' = renderToken(stack, input[i])
    /\ i' = i + 1
    /\ UNCHANGED <<pc, input, computed, infix>>
    /\ UNCHANGED shapeVars /\ UNCHANGED solveVars

\* return stack[0][0]
RenderReturn ==
    /\ pc = "render" /\ i > Len(input)
    /\ infix' = stack[1][1]
    /\ pc' = "done"
    /\ UNCHANGED <<input, i, stack, computed>>
    /\ UNCHANGED shapeVars /\ UNCHANGED solveVars

NextRPN ==
    \/ Assemble
    \/ ComputeToken
    \/ ComputeReturn
    \/ RenderEnter
    \/ RenderToken
    \/ RenderReturn

SpecRPN == InitRPN /\ [][NextRPN]_vars

----------------------------------------------------------------------------
(* Reading a text back: the shunting-yard algorithm with the table's       *)
(* precedences, operators of equal precedence grouped left to right.  It   *)
(* yields the postfix sequence of the expression tree the text denotes.    *)

\* The numbers that occur in a text.
Literals ==
    NumberFloats \cup
    UNION {{FromInt(q.numbers[j]) : j \in 1..Len(q.numbers)} : q \in Queries}

\* float(s)
ParseFloat(s) == CHOOSE x \in Literals : Str(x) = s

RECURSIVE PopCount(_, _, _)
\* How many operators on top of ops an incoming operator t sends to the
\* output: those of precedence at least t's, down to a "(".
PopCount(ops, t, k) ==
    IF /\ k < Len(ops)
       /\ ops[Len(ops) - k] # "("
       /\ Precedence(ops[Len(ops) - k]) >= Precedence(t)
    THEN PopCount(ops, t, k + 1)
    ELSE k

RECURSIVE ParenCount(_, _)
\* How many operators lie on ops above its last "(".
ParenCount(ops, k) ==
    IF k < Len(ops) /\ ops[Len(ops) - k] # "("
    THEN ParenCount(ops, k + 1)
    ELSE k

\* The top k operators of ops, the topmost first, as tokens.
Popped(ops, k) == [j \in 1..k |-> OpTok(ops[Len(ops) - j + 1])]

RECURSIVE Yard(_, _, _, _)
Yard(text, k, out, ops) ==
    IF k > Len(text) THEN out \o Popped(ops, Len(ops))
    ELSE LET t == text[k]
         IN  IF t = " " THEN Yard(text, k + 1, out, ops)
             ELSE IF t = "(" THEN Yard(text, k + 1, out, Append(ops, t))
             ELSE IF t = ")"
             THEN LET c == ParenCount(ops, 0)
                  IN  Yard(text, k + 1, out \o Popped(ops, c),
                           SubSeq(ops, 1, Len(ops) - c - 1))
             ELSE IF t \in KeySet
             THEN LET c == PopCount(ops, t, 0)
                  IN  Yard(text, k + 1, out \o Popped(ops, c),
                           Append(SubSeq(ops, 1, Len(ops) - c), t))
             ELSE Yard(text, k + 1, Append(out, NumTok(ParseFloat(t))), ops)

Parse(text) == Yard(text, 1, <<>>, <<>>)

\* The ")" that closes the "(" at position p of text.
CloserOf(text, p) ==
    CHOOSE q \in (p + 1)..Len(text) :
        /\ text[q] = ")"
        /\ Cardinality({j \in p..q : text[j] = "("})
               = Cardinality({j \in p..q : text[j] = ")"})
        /\ \A r \in (p + 1)..(q - 1) :
              Cardinality({j \in p..r : text[j] = "("})
                  # Cardinality({j \in p..r : text[j] = ")"})

\* text without the pair of parentheses opened at p.
WithoutPair(text, p) ==
    LET q == CloserOf(text, p)
    IN  SubSeq(text, 1, p - 1) \o SubSeq(text, p + 1, q - 1)
            \o SubSeq(text, q + 1, Len(text))

\* Dropping any one pair of parentheses changes the tree the text denotes.
EveryPairNeeded(text) ==
    \A p \in 1..Len(text) :
        text[p] = "(" => Parse(WithoutPair(text, p)) # Parse(text)

\* In a postfix sequence the root of an operator's right operand is the
\* token just before it.  Some + or * of seq has a right operand whose top
\* operator has the same precedence.
HasAssocRight(seq) ==
    \E k \in 2..Len(seq) :
        /\ IsStr(seq[k]) /\ IsStr(seq[k - 1])
        /\ Associative(seq[k].v)
        /\ Precedence(seq[k - 1].v) = Precedence(seq[k].v)

----------------------------------------------------------------------------
(* The value a postfix sequence denotes in exact rational arithmetic: a    *)
(* pair <<n, d>> in lowest terms with d > 0, or None for a division by     *)
(* zero.                                                                   *)

RECURSIVE Gcd(_, _)
Gcd(a, b) == IF b = 0 THEN a ELSE Gcd(b, a % b)

Rat(n, d) ==
    LET g == Gcd(Abs(n), Abs(d))
    IN  <<(Sgn(d) * n) \div g, Abs(d) \div g>>

RatOf(x) == IF x[2] >= 0 THEN <<x[1] * 2 ^ x[2], 1>> ELSE Rat(x[1], 2 ^ (-x[2]))

RatFunc(op, a, b) ==
    CASE op = "+" -> Rat(a[1] * b[2] + b[1] * a[2], a[2] * b[2])
      [] op = "-" -> Rat(a[1] * b[2] - b[1] * a[2], a[2] * b[2])
      [] op = "*" -> Rat(a[1] * b[1], a[2] * b[2])
      [] op = "/" -> IF b[1] = 0 THEN None ELSE Rat(a[1] * b[2], a[2] * b[1])

RECURSIVE ExactLoop(_, _, _)
ExactLoop(seq, k, st) ==
    IF k > Len(seq) THEN st[Len(st)]
    ELSE IF IsStr(seq[k])
    THEN LET res == RatFunc(seq[k].v, st[Len(st) - 1], st[Len(st)])
         IN  IF res = None THEN None
             ELSE ExactLoop(seq, k + 1,
                            Append(SubSeq(st, 1, Len(st) - 2), res))
    ELSE ExactLoop(seq, k + 1, Append(st, RatOf(seq[k].v)))

Exact(seq) == ExactLoop(seq, 1, <<>>)

----------------------------------------------------------------------------
(* Rendering and evaluation of one sequence.                               *)

\* C2 as claimed: reading the rendered text back and evaluating it gives
\* what computeRPN gave for the sequence, the same float or None in both.
C2_SameOutcome ==
    pc = "done" => computeRPN(Parse(infix)) = computed

\* C2 as amended: the text read back denotes the same exact value as the
\* sequence (or a division by zero in both); computeRPN gives the same float
\* for both whenever no + or * of the sequence has a right operand whose top
\* operator has the same precedence.
C2_SameMeaning ==
    pc = "done" =>
        /\ Exact(Parse(infix)) = Exact(input)
        /\ ~HasAssocRight(input) => computeRPN(Parse(infix)) = computed

\* C2 witness: a regrouped sequence whose text evaluates to another float.
C2_Witness ==
    /\ pc = "done" /\ HasAssocRight(input)
    /\ computed # None
    /\ computeRPN(Parse(infix)) # computed
    /\ Exact(Parse(infix)) = Exact(input)

\* C3 as claimed: reading the rendered text back gives exactly the tree of
\* the sequence, and no pair of parentheses can be dropped.
C3_SameTree ==
    pc = "done" => Parse(infix) = input /\ EveryPairNeeded(infix)

\* C3 as amended: reading the rendered text back gives exactly the tree of
\* the sequence if and only if no + or * of the sequence has a right operand
\* whose top operator has the same precedence; in every case no pair of
\* parentheses of the text can be dropped without changing the tree the text
\* denotes.
C3_SameTreeUnlessRegrouped ==
    pc = "done" =>
        /\ Parse(infix) = input <=> ~HasAssocRight(input)
        /\ EveryPairNeeded(infix)

\* C3 witness: a sequence whose text denotes another tree.
C3_Witness ==
    /\ pc = "done" /\ HasAssocRight(input) /\ Parse(infix) # input

\* The number of tokens of the operand whose root is at position j.
RECURSIVE SubLen(_, _)
SubLen(seq, j) ==
    IF IsStr(seq[j])
    THEN 1 + SubLen(seq, j - 1) + SubLen(seq, j - 1 - SubLen(seq, j - 1))
    ELSE 1

\* The top-level operator of the operand whose root is at j; "" for a number.
TopOp(seq, j) == IF IsStr(seq[j]) THEN seq[j].v ELSE ""

\* What the pass on the operator at position i must push.
WrapRule ==
    LET op == input[i].v
        lop == TopOp(input, i - 1 - SubLen(input, i - 1))
        rop == TopOp(input, i - 1)
        lhsText == stack[Len(stack) - 1][1]
        rhsText == stack[Len(stack)][1]
        lhsWrap == lop # "" /\ Precedence(lop) < Precedence(op)
        rhsWrap == rop # "" /\
                   (Precedence(rop) < Precedence(op) \/
                    (Precedence(rop) = Precedence(op) /\ ~Associative(op)))
    IN  stack'[Len(stack')][1] =
            (IF lhsWrap THEN <<"(">> \o lhsText \o <<")">> ELSE lhsText)
            \o <<" ", op, " ">>
            \o (IF rhsWrap THEN <<"(">> \o rhsText \o <<")">> ELSE rhsText)

RenderStepRule ==
    (pc = "render" /\ i <= Len(input)) =>
        IF IsStr(input[i]) THEN WrapRule
        ELSE stack'[Len(stack')][1] = <<Str(input[i].v)>>

\* a b - c - and a b c - -
RenderExamples ==
    (pc = "done" /\ Len(input) = 5 /\ input[5] = OpTok("-")) =>
        LET a == Str(input[1].v)
            b == Str(input[2].v)
        IN  /\ input[3] = OpTok("-") =>
                infix = <<a, " ", "-", " ", b, " ", "-", " ", Str(input[4].v)>>
            /\ input[4] = OpTok("-") =>
                infix = <<a, " ", "-", " ", "(", b, " ", "-", " ",
                          Str(input[3].v), ")">>

\* C6: on an operator token rpnToInfix parenthesizes the left fragment iff
\* it has a top-level operator of strictly lower precedence, and the right
\* fragment iff it has a top-level operator of strictly lower precedence, or
\* of equal precedence while the current operator is not associative; a
\* number is never parenthesized.  a b - c - gives "a - b - c" and
\* a b c - - gives "a - (b - c)".
C6_WrapRule == [][RenderStepRule]_vars /\ []RenderExamples

\* C6 witness: a b c - - has been rendered with its right operand wrapped.
C6_Witness ==
    /\ pc = "done" /\ Len(input) = 5
    /\ input[4] = OpTok("-") /\ input[5] = OpTok("-")
    /\ infix[5] = "("

\* C7: when computeRPN applies a division to a right operand equal to zero,
\* wherever in the sequence and however the zero came about, it returns None
\* at that operator: no number is returned and no later token is processed.
C7_ZeroDivisorIsNone ==
    [][(/\ pc = "compute" /\ i <= Len(input)
        /\ input[i] = OpTok("/")
        /\ IsZero(stack[Len(stack)]))
       => (pc' = "computed" /\ computed' = None /\ i' = i /\ stack' = stack)]_vars

\* C7 witness: computeRPN returned None at a division with tokens left.
C7_Witness ==
    /\ pc = "computed" /\ computed = None
    /\ i < Len(input) /\ input[i] = OpTok("/")

----------------------------------------------------------------------------
(* solve(target, numbers, tol, max_workers).                               *)

InitSolve ==
    /\ pc = "start"
    /\ \E q \in Queries :
          /\ target = FromInt(q.target)
          /\ numbers = Floats(q.numbers)
          /\ tol = q.tol
    /\ max_workers \in 1..MaxWorkers
    /\ num = 0 /\ structures = <<>> /\ structure = <<>>
    /\ operators = <<>> /\ outcome = None
    /\ opsCombinations = <<>> /\ taskNext = 0 /\ running = {}
    /\ value = <<>> /\ numberLeft = 0 /\ result = <<>> /\ attempts = 0
    /\ SeqIdle

\* Lines 30-46: the structures and operator tuples are built and pool.map is
\* called; every place of its list of results is None.
SolveStart ==
    /\ pc = "start"
    /\ num' = Len(numbers)
    /\ structures' = generateRPNStructures(Len(numbers))
    /\ opsCombinations' = product(OperatorKeys, Len(numbers) - 1)
    /\ value' = [j \in 1..Len(opsCombinations') |-> None]
    /\ numberLeft' = NumChunks(Len(opsCombinations'),
                               Chunksize(Len(opsCombinations'), max_workers))
    /\ taskNext' = 1
    /\ pc' = "map"
    /\ UNCHANGED <<structure, numbers, operators, outcome, target, tol,
                   max_workers, running, result, attempts>>
    /\ UNCHANGED seqVars

\* An idle worker takes the next chunk and calls processOpsCombinations on
\* each of its tuples.
WorkerRun ==
    /\ pc = "map"
    /\ Cardinality(running) < max_workers
    /\ LET n == Len(opsCombinations)
           c == Chunksize(n, max_workers)
       IN  /\ taskNext <= NumChunks(n, c)
           /\ running' = running \cup
                 {[job |-> taskNext,
                   out |-> [j \in 1..(ChunkLast(taskNext, c, n)
                                      - ChunkFirst(taskNext, c) + 1) |->
                              processOpsCombinations(
                                  opsCombinations[ChunkFirst(taskNext, c) + j - 1],
                                  target, numbers, structures, tol)]]}
    /\ taskNext' = taskNext + 1
    /\ UNCHANGED <<pc, value, numberLeft, result, attempts, target, tol,
                   max_workers, opsCombinations>>
    /\ UNCHANGED shapeVars /\ UNCHANGED seqVars

\* A worker hands back what it computed for its chunk; the pool stores it.
WorkerDone ==
    /\ pc = "map"
    /\ \E r \in running :
          /\ value' = mapSet(value, r.job,
                             Chunksize(Len(opsCombinations), max_workers),
                             r.out)
          /\ running' = running \ {r}
    /\ numberLeft' = numberLeft - 1
    /\ UNCHANGED <<pc, taskNext, result, attempts, target, tol, max_workers,
                   opsCombinations>>
    /\ UNCHANGED shapeVars /\ UNCHANGED seqVars

\* Lines 47-51: pool.map returns, the lists are flattened, the attempts are
\* counted.
SolveReturn ==
    /\ pc = "map" /\ numberLeft = 0
    /\ result' = Flatten(value)
    /\ attempts' = countAttempts(opsCombinations, numbers, structures)
    /\ pc' = "done"
    /\ UNCHANGED <<target, tol, max_workers, opsCombinations, taskNext,
                   running, value, numberLeft>>
    /\ UNCHANGED shapeVars /\ UNCHANGED seqVars

NextSolve == SolveStart \/ WorkerRun \/ WorkerDone \/ SolveReturn

SpecSolve == InitSolve /\ [][NextSolve]_vars

----------------------------------------------------------------------------
(* What solve returns.                                                     *)

\* The operator tuples, the orders of the positions of numbers, and the
\* (tuple, order, shape) triples for the numbers of the call.
OpTuples(n) == [1..(n - 1) -> KeySet]

Orders(n) == {p \in [1..n -> 1..n] : \A a, b \in 1..n : p[a] = p[b] => a = b}

Triples == OpTuples(Len(numbers)) \X Orders(Len(numbers)) \X AllShapes(Len(numbers))

\* The postfix sequence assembled for a triple.
SeqOf(tr) ==
    useStructures(tr[3], [j \in 1..Len(numbers) |-> numbers[tr[2][j]]],
                  tr[1]).value

\* |value - target| for a triple; None for a division by zero.
Distance(tr) ==
    LET v == computeRPN(SeqOf(tr))
    IN  IF v = None THEN None ELSE FAbs(FSub(v, target))

\* The matching triples, each with the text of its sequence.
Hits ==
    {<<tr, rpnToInfix(SeqOf(tr))>> :
        tr \in {t \in Triples : Distance(t) # None /\ FLt(Distance(t), tol)}}

\* How many entries of result are text.
Count(text) == Cardinality({k \in 1..Len(result) : result[k] = text})

\* C1: for every operator tuple, permutation of the numbers and shape, the
\* result holds the rendering of the assembled sequence iff the evaluation is
\* not None and |value - target| < tol, strictly; it holds one entry per
\* matching triple and nothing else.
C1_OneEntryPerMatch ==
    pc = "done" =>
        LET hits == Hits
        IN  /\ Len(result) = Cardinality(hits)
            /\ \A text \in Range(result) \cup {h[2] : h \in hits} :
                  Count(text) = Cardinality({h \in hits : h[2] = text})

\* C1 witness: solve returned entries and left out a triple whose value lies
\* at distance exactly tol from the target.
C1_Witness ==
    /\ pc = "done" /\ Len(result) > 0
    /\ \E tr \in Triples : Distance(tr) = tol

\* C4 as claimed: no expression occurs more than once in the result.
C4_NoRepeatedExpression ==
    pc = "done" =>
        \A a, b \in 1..Len(result) : result[a] = result[b] => a = b

\* C4 as amended: an expression occurs more than once in the result exactly
\* when more than one matching triple renders it, and two triples render
\* alike only if they assemble the same sequence (permutations exchanging
\* equal numbers) or one of the sequences has a + or * whose right operand
\* has a top operator of the same precedence.
C4_RepeatsOnlyFromEqualNumbersOrRegrouping ==
    pc = "done" =>
        LET hits == Hits
        IN  /\ \A text \in Range(result) :
                  Count(text) > 1 <=>
                      \E g, h \in hits : g # h /\ g[2] = text /\ h[2] = text
            /\ \A g, h \in hits :
                  (g # h /\ g[2] = h[2]) =>
                      \/ SeqOf(g[1]) = SeqOf(h[1])
                      \/ HasAssocRight(SeqOf(g[1]))
                      \/ HasAssocRight(SeqOf(h[1]))

\* C4 witness: pairwise different numbers and an expression returned twice.
C4_Witness ==
    /\ pc = "done"
    /\ \A a, b \in 1..Len(numbers) : numbers[a] = numbers[b] => a = b
    /\ \E a, b \in 1..Len(result) : a < b /\ result[a] = result[b]

\* The list a sequential run builds: operator tuple outer, permutation
\* middle, shape inner.
Sequential ==
    LET perms == permutations(numbers)
        P == Len(perms)
        S == Len(structures)
    IN  Flatten([k \in 1..(Len(opsCombinations) * P * S) |->
            tryOne(opsCombinations[((k - 1) \div (P * S)) + 1], target,
                   perms[(((k - 1) \div S) % P) + 1],
                   structures[((k - 1) % S) + 1], tol)])

\* C8: whatever the number of workers and the order in which they finish,
\* solve returns the list of a sequential run: nothing lost, repeated or
\* reordered.
C8_SameAsSequential ==
    pc = "done" => result = Sequential

\* C8 witness: the results of a later chunk are stored while an earlier
\* chunk is still with its worker.
C8_Witness ==
    /\ pc = "map"
    /\ \E r \in running :
          \E j \in 1..Len(value) :
              /\ j > ChunkLast(r.job, Chunksize(Len(value), max_workers),
                               Len(value))
              /\ Len(value[j]) > 0

RECURSIVE Factorial(_)
Factorial(n) == IF n = 0 THEN 1 ELSE n * Factorial(n - 1)

\* C9: the attempts solve reports are |operators|^(N-1) * N! * Catalan(N-1),
\* whatever the number of results; 7680 for four operators and four numbers.
C9_Attempts ==
    pc = "done" =>
        LET N == Len(numbers)
        IN  /\ attempts = Len(OperatorKeys) ^ (N - 1) * Factorial(N)
                              * Catalan(N - 1)
            /\ N = 4 => attempts = 7680

\* C9 witness: four numbers, 7680 attempts.
C9_Witness ==
    pc = "done" /\ Len(numbers) = 4 /\ attempts = 7680

====
